---- MODULE Spec2Model ----
\* Euclid-O-Matic: Euclidean rhythm sequencer (Arduino Nano sketch).
\* Two source variants are modelled:
\*   "v11"    src/src/Euclid-O-Matic/Euclid-O-Matic.ino, default build
\*   "v11len" the same file built with ALLOW_PATTERN_LENGTH_CHANGE
\*   "v10"    src/unnamed/part_000 (version 1.0, separate currentPatch)
\* int / unsigned int are 16 bits wide on the target (AVR).
EXTENDS Integers, Sequences, FiniteSets, TLC

VARIABLES
  build,                   \* which source variant / build flags are running
  clkPin,                  \* digitalRead(CLK_PIN): TRUE = external clock
  mode,
  patches,
  currentPatch,            \* v10 only: the patch being played
  delayTime,
  memoryCellsInUse,        \* the set of bit positions set in the bit mask
  chosenPatchNumber,
  candidatePatchNumber,
  selectedTriggerChannel,
  step,
  statics,                 \* the static locals of loop() and checkButtons()
  pending,                 \* myEnc.read() - oldPosition after the last loop
  sinceTrig,               \* thisTime - prevTime after the last loop
  muteDelay,               \* ms left on muteButtonDelay, -1 when not running
  trig,                    \* trigger outputs: TRUE = asserted (pin LOW)
  clockOut,                \* SEQ_CLOCK_OUT_PIN: TRUE = asserted (pin LOW)
  eeprom,
  last,                    \* what the last loop() did (history)
  hist,                    \* the last store and what followed it (history)
  budget,                  \* loop iterations and power cycles left to explore
  fn                       \* operands of the function bench

vars == <<build, clkPin, mode, patches, currentPatch, delayTime,
          memoryCellsInUse, chosenPatchNumber, candidatePatchNumber,
          selectedTriggerChannel, step, statics, pending, sinceTrig,
          muteDelay, trig, clockOut, eeprom, last, hist, budget, fn>>

machineVars == <<build, clkPin, mode, patches, currentPatch, delayTime,
                 memoryCellsInUse, chosenPatchNumber, candidatePatchNumber,
                 selectedTriggerChannel, step, statics, pending, sinceTrig,
                 muteDelay, trig, clockOut, eeprom, last, hist, budget>>

----------------------------------------------------------------------------
\* Program constants

NUM_NEOP_LEDS == 16
NR_OF_MEMORY_CELLS == NUM_NEOP_LEDS
DEFAULT_PATTERN_LENGTH == 16
TRIG_A == 3
TRIG_B == 2
TRIG_C == 1
TRIG_D == 0

PATTERN_LENGTH_MODE == 1
NUM_PULSE_MODE == 2
ROTATE_MODE == 3
PROGRAM_MODE == 4
MAX_MODE == 3
HALF_DAC_RANGE == 500
MAX_DELAY_TIME == 500
MIN_DELAY_TIME == 10
MUTE_BUTTON_DELAY_INTERVAL == 500

Builds == {"v11", "v11len", "v10"}
Slots == 0..(NR_OF_MEMORY_CELLS - 1)

\* Width of unsigned int on the AVR target: values are taken modulo 2^16.
WORD == 65536

Channels == 0..3

----------------------------------------------------------------------------
\* Bit arithmetic on 16-bit unsigned values

\* (var >> pos) & 1
BitAt(var, pos) == (var \div (2 ^ pos)) % 2

\* var | (1 << pos)
SetBit(var, pos) == IF BitAt(var, pos) = 1 THEN var ELSE var + 2 ^ pos

\* var & ~(1 << pos)
ClearBit(var, pos) == IF BitAt(var, pos) = 1 THEN var - 2 ^ pos ELSE var

\* The set of bit positions set in var.
BitsOf(var) == {i \in 0..15 : BitAt(var, i) = 1}

----------------------------------------------------------------------------
\* PatternGenerator

RECURSIVE euclidLoop(_, _, _, _, _)
euclidLoop(i, bucket, number, pulses, patternLength) ==
  IF i >= patternLength THEN number
  ELSE LET b == bucket + pulses
       IN IF b >= patternLength
          THEN euclidLoop(i + 1, b - patternLength, SetBit(number, i),
                          pulses, patternLength)
          ELSE euclidLoop(i + 1, b, number, pulses, patternLength)

\* Mutant of euclid: the bucket is emptied only when it exceeds the length.
RECURSIVE euclidLoopStrict(_, _, _, _, _)
euclidLoopStrict(i, bucket, number, pulses, patternLength) ==
  IF i >= patternLength THEN number
  ELSE LET b == bucket + pulses
       IN IF b > patternLength
          THEN euclidLoopStrict(i + 1, b - patternLength, SetBit(number, i),
                                pulses, patternLength)
          ELSE euclidLoopStrict(i + 1, b, number, pulses, patternLength)

euclidStrict(thisPatch, channelNumber) ==
  euclidLoopStrict(0, 0, 0, thisPatch.pulses[channelNumber],
                   thisPatch.patternLength[channelNumber])

\* Mutant of euclid: the bucket starts full, so the first step always fires.
euclidFullBucket(thisPatch, channelNumber) ==
  euclidLoop(0, thisPatch.patternLength[channelNumber] - 1, 0,
             thisPatch.pulses[channelNumber],
             thisPatch.patternLength[channelNumber])

euclid(thisPatch, channelNumber) ==
  euclidLoop(0, 0, 0, thisPatch.pulses[channelNumber],
             thisPatch.patternLength[channelNumber])

----------------------------------------------------------------------------
\* PatternRotator
\* length is patternLength[channelNumber] of the live patch.  With
\* length = 0 the shift count is -1, which is undefined: ub (0 or 1) is the
\* bit such a shift happens to deliver.

\* Mutant of rotateLeft: the dropped bit is not wrapped around.
rotateLeftNoWrap(pattern, length, ub) == (pattern * 2) % WORD

rotateLeft(pattern, length, ub) ==
  LET DROPPED_MSB == IF length >= 1 THEN BitAt(pattern, length - 1) ELSE ub
  IN  ((pattern * 2) % WORD) + DROPPED_MSB

\* Mutant of rotateRight: the dropped bit is not wrapped around.
rotateRightNoWrap(pattern, length, ub) == pattern \div 2

rotateRight(pattern, length, ub) ==
  LET DROPPED_LSB == pattern % 2
      shifted == pattern \div 2
  IN  IF length >= 1
      THEN LET cleared == ClearBit(shifted, length - 1)
           IN  IF DROPPED_LSB = 1 THEN SetBit(cleared, length - 1) ELSE cleared
      ELSE LET cleared == IF ub = 1 THEN ClearBit(shifted, 15) ELSE shifted
           IN  IF DROPPED_LSB = 1 /\ ub = 1 THEN SetBit(cleared, 15) ELSE cleared

----------------------------------------------------------------------------
\* Patch, EEPROM image and start-up

Tup4(d, c, b, a) == [ch \in Channels |-> <<d, c, b, a>>[ch + 1]]

\* createEmptyPatch: v1.1 gives an empty patch DEFAULT_PATTERN_LENGTH steps,
\* v1.0 gives it 0 steps.
createEmptyPatch ==
  [pulses |-> Tup4(0, 0, 0, 0),
   patternLength |-> IF build = "v10" THEN Tup4(0, 0, 0, 0)
                     ELSE [ch \in Channels |-> DEFAULT_PATTERN_LENGTH],
   channelPattern |-> Tup4(0, 0, 0, 0),
   mute |-> [ch \in Channels |-> FALSE]]

copyPatch(srcPatch) ==
  [pulses |-> srcPatch.pulses,
   patternLength |-> srcPatch.patternLength,
   channelPattern |-> srcPatch.channelPattern,
   mute |-> srcPatch.mute]

\* The EEPROM image written by a build with INITIALIZE defined: one preset
\* patch in cell 0, fifteen empty cells.
initializePatchInEeprom ==
  LET preset == [pulses |-> Tup4(5, 5, 3, 4),
                 patternLength |-> IF build = "v10" THEN Tup4(14, 15, 15, 12)
                                   ELSE [ch \in Channels |-> DEFAULT_PATTERN_LENGTH],
                 channelPattern |-> Tup4(10532, 18724, 16912, 2340),
                 mute |-> [ch \in Channels |-> FALSE]]
  IN  [selectedTriggerChannel |-> 3,
       patchNumber |-> 0,
       memoryCellsInUse |-> {0},
       delayTime |-> 95,
       rec |-> [i \in Slots |-> IF i = 0 THEN preset ELSE createEmptyPatch]]

\* Mutant of writePatchToMemory: the loop does not stop at the record of
\* patchNumber and writes the records before it as well.
writePatchToMemoryUpTo(e, thisPatch, inUse, patchNumber, delay, channel) ==
  [e EXCEPT !.selectedTriggerChannel = channel,
            !.patchNumber = patchNumber,
            !.memoryCellsInUse = inUse,
            !.delayTime = delay,
            !.rec = [j \in Slots |-> IF j <= patchNumber THEN thisPatch
                                     ELSE e.rec[j]]]

\* writePatchToMemory / writePatchToEEPROM: the header and the one record at
\* offset header + patchNumber * sizeof(Patch).  rec[j] is the record at
\* offset header + j * sizeof(Patch).
writePatchToMemory(e, thisPatch, inUse, patchNumber, delay, channel) ==
  [e EXCEPT !.selectedTriggerChannel = channel,
            !.patchNumber = patchNumber,
            !.memoryCellsInUse = inUse,
            !.delayTime = delay,
            !.rec[patchNumber] = thisPatch]

writePatchNumberToMemory(e, patchNumber) ==
  [e EXCEPT !.patchNumber = patchNumber]

\* Mutant of writeTriggerChannelToMemory: nothing is written.
writeTriggerChannelNowhere(e, triggerChannel) == e

writeTriggerChannelToMemory(e, triggerChannel) ==
  [e EXCEPT !.selectedTriggerChannel = triggerChannel]

\* readPatchesFromMemory: the address advances by sizeof(Patch) only after a
\* cell that is in use, so cell i is read from the record whose index is the
\* number of cells in use below i.
readPatchesFromMemory(e) ==
  [i \in Slots |->
     IF i \in e.memoryCellsInUse
     THEN e.rec[Cardinality({j \in e.memoryCellsInUse : j < i})]
     ELSE createEmptyPatch]

\* Milliseconds setup() spends before the first loop(): the LED test wipes
\* (3 colours x 16 pixels x 25 ms in v1.1).
SetupMillis == 1200

\* The static locals of loop() and checkButtons(), as initialised.
InitStatics ==
  [prog |-> FALSE,
   prevProgramButtonValue |-> 0,
   prevF |-> [i \in 1..4 |-> 0],
   prevResetPinIn |-> 0,
   prevExtClk |-> 0,
   previousSelectedChannel |-> -1,
   change |-> FALSE,
   allowMuteButtons |-> TRUE]

\* The program state after power-up and setup(), read from EEPROM image e.
\* The fields from programButtonName on are locals of loop().
setup(e) ==
  LET loaded == readPatchesFromMemory(e)
  IN  [mode |-> CASE build = "v11" -> NUM_PULSE_MODE
                  [] build = "v11len" -> PATTERN_LENGTH_MODE
                  [] OTHER -> 0,
       patches |-> loaded,
       currentPatch |-> IF build = "v10" THEN copyPatch(loaded[e.patchNumber])
                        ELSE createEmptyPatch,
       delayTime |-> e.delayTime,
       memoryCellsInUse |-> e.memoryCellsInUse,
       chosenPatchNumber |-> e.patchNumber,
       candidatePatchNumber |-> IF build = "v10" THEN e.patchNumber ELSE 0,
       selectedTriggerChannel |-> e.selectedTriggerChannel,
       step |-> Tup4(0, 0, 0, 0),
       statics |-> InitStatics,
       pending |-> 0,
       sinceTrig |-> SetupMillis,
       muteDelay |-> IF build = "v10" THEN -1 ELSE 1,
       trig |-> [ch \in Channels |-> build # "v10"],
       clockOut |-> build # "v10",
       eeprom |-> e,
       programButtonName |-> -1,
       pressed |-> FALSE,
       diff |-> 0,
       elapsed |-> 0,
       triggered |-> FALSE,
       events |-> {}]

\* The patch being played and edited: patches[chosenPatchNumber] in v1.1,
\* currentPatch in v1.0.
Live(s) ==
  IF build = "v10" THEN s.currentPatch ELSE s.patches[s.chosenPatchNumber]

SetLive(s, p) ==
  IF build = "v10" THEN [s EXCEPT !.currentPatch = p]
  ELSE [s EXCEPT !.patches[s.chosenPatchNumber] = p]

----------------------------------------------------------------------------
\* Inputs of one loop() iteration
\*   enc      raw encoder counts turned since the previous iteration
\*   button   analogRead(BUTTON_PIN)      esc     digitalRead(TAP_TEMPO_PIN)
\*   progPin  digitalRead(PROG_PIN)       f[1..4] analogRead(F1..F4_PIN)
\*            (pulled up: FALSE while the encoder switch is held down)
\*   reset    digitalRead(RESET_PIN)      extClk  analogRead(EXT_CLK_PIN)
\*   pot      analogRead(POT_PIN)         dt      ms since the previous iteration
\*   ub       the bit an undefined shift (by -1) delivers

\* Duration of one loop() iteration in ms.
LoopMs == 2

NoInput ==
  [enc |-> 0, button |-> 0, esc |-> 0, progPin |-> TRUE,
   f |-> [i \in 1..4 |-> 0], reset |-> 0, extClk |-> 0, pot |-> 0,
   dt |-> LoopMs, ub |-> 0]

\* One reading inside each window of the button voltage divider, one in the
\* gap between 850 and 900 that only v1.0 takes for button A, and 0 for no
\* button.
ButtonReadings == {500, 700, 800, 870, 950}

\* checkButtons(int *) in v1.1, checkProgramButtons in v1.0: the button a
\* reading decodes to, -1 for none.
DecodeProgramButton(buttonValue) ==
  CASE buttonValue > 400 /\ buttonValue < 600 -> TRIG_D
    [] build # "v10" /\ buttonValue > 640 /\ buttonValue < 730 -> TRIG_C
    [] buttonValue > 750 /\ buttonValue < 840 -> TRIG_B
    [] buttonValue > (IF build = "v10" THEN 850 ELSE 900) -> TRIG_A
    [] OTHER -> -1

\* The channel-select decoding of checkButtons(int &, int).
DecodeChannel(selectedChannel, buttonValue) ==
  CASE buttonValue > 400 /\ buttonValue < 600 -> TRIG_D
    [] buttonValue > 640 /\ buttonValue < 730 -> TRIG_C
    [] buttonValue > 750 /\ buttonValue < 840 -> TRIG_B
    [] buttonValue > (IF build = "v10" THEN 850 ELSE 900) -> TRIG_A
    [] OTHER -> selectedChannel

----------------------------------------------------------------------------
\* loop(), stage by stage.  Each stage maps the program state s (a record as
\* built by setup) and the inputs in to the state after the stage.

Note(s, event) == [s EXCEPT !.events = @ \cup {event}]

\* Mutant of ReadButtons: the channel buttons select with escape held too.
ReadButtonsEscapeBlind(s, in) ==
  IF s.mode = PROGRAM_MODE
  THEN LET name == DecodeProgramButton(in.button)
       IN  [s EXCEPT !.programButtonName = name,
                     !.statics.prevProgramButtonValue =
                        IF name = -1 THEN 0 ELSE @]
  ELSE LET sel == DecodeChannel(s.selectedTriggerChannel, in.button)
           s1 == [s EXCEPT !.selectedTriggerChannel = sel,
                           !.statics.previousSelectedChannel = sel,
                           !.statics.change =
                              (s.statics.previousSelectedChannel # sel)]
       IN  IF s1.statics.change
           THEN Note([s1 EXCEPT !.eeprom = writeTriggerChannelToMemory(
                                    @, s1.selectedTriggerChannel)], "select")
           ELSE s1

\* Mutant of ReadButtons: the program buttons are re-armed in every iteration.
ReadButtonsRearm(s, in) ==
  IF s.mode = PROGRAM_MODE
  THEN [s EXCEPT !.programButtonName = DecodeProgramButton(in.button),
                 !.statics.prevProgramButtonValue = 0]
  ELSE LET s1 == IF in.esc = 0
                 THEN LET sel == DecodeChannel(s.selectedTriggerChannel, in.button)
                      IN  [s EXCEPT !.selectedTriggerChannel = sel,
                                    !.statics.previousSelectedChannel = sel,
                                    !.statics.change =
                                       (s.statics.previousSelectedChannel # sel)]
                 ELSE s
       IN  IF s1.statics.change
           THEN Note([s1 EXCEPT !.eeprom = writeTriggerChannelToMemory(
                                    @, s1.selectedTriggerChannel)], "select")
           ELSE s1

\* Reading the buttons: program buttons in PROGRAM_MODE, channel select
\* otherwise.
ReadButtons(s, in) ==
  IF s.mode = PROGRAM_MODE
  THEN LET name == DecodeProgramButton(in.button)
       IN  [s EXCEPT !.programButtonName = name,
                     !.statics.prevProgramButtonValue =
                        IF name = -1 THEN 0 ELSE @]
  ELSE LET s1 == IF in.esc = 0
                 THEN LET sel == DecodeChannel(s.selectedTriggerChannel, in.button)
                      IN  [s EXCEPT !.selectedTriggerChannel = sel,
                                    !.statics.previousSelectedChannel = sel,
                                    !.statics.change =
                                       (s.statics.previousSelectedChannel # sel)]
                 ELSE s
       IN  IF s1.statics.change
           THEN Note([s1 EXCEPT !.eeprom = writeTriggerChannelToMemory(
                                    @, s1.selectedTriggerChannel)], "select")
           ELSE s1

\* prevProg = prog; prog = digitalRead(PROG_PIN); thisTime = millis().
ReadProgPin(s, in) ==
  [s EXCEPT !.pressed = (in.progPin /\ ~s.statics.prog),
            !.statics.prog = in.progPin,
            !.diff = s.pending + in.enc,
            !.elapsed = s.sinceTrig + in.dt]

\* Mutant of MuteButtons: the mute buttons are never locked out.
MuteButtonsNoCooldown(s, in) ==
  IF build = "v10" THEN s
  ELSE LET name == DecodeProgramButton(in.button)
       IN  IF in.esc > 0 /\ name # -1
           THEN Note(SetLive(s, [Live(s) EXCEPT !.mute[name] = ~@]), "mute")
           ELSE s

\* Mute toggling (v1.1 only): escape held and a button pressed toggles the
\* button's mute flag of the live patch, then locks the mute buttons for
\* MUTE_BUTTON_DELAY_INTERVAL ms.
MuteButtons(s, in) ==
  IF build = "v10" THEN s
  ELSE LET finished == s.muteDelay # -1 /\ s.muteDelay <= in.dt
           s1 == [s EXCEPT !.muteDelay = IF @ = -1 \/ finished THEN -1
                                         ELSE @ - in.dt,
                           !.statics.allowMuteButtons = finished \/ @]
           name == DecodeProgramButton(in.button)
       IN  IF in.esc > 0 /\ s1.statics.allowMuteButtons /\ name # -1
           THEN Note([SetLive(s1, [Live(s1) EXCEPT !.mute[name] = ~@])
                        EXCEPT !.statics.allowMuteButtons = FALSE,
                               !.muteDelay = MUTE_BUTTON_DELAY_INTERVAL],
                     "mute")
           ELSE s1

\* Mutant of FirstMode: every build returns to PATTERN_LENGTH_MODE.
FirstModeLength == PATTERN_LENGTH_MODE

\* The mode a plain press of the encoder switch returns to after MAX_MODE.
FirstMode == IF build = "v11" THEN NUM_PULSE_MODE ELSE PATTERN_LENGTH_MODE

\* Mutant of ModeSwitch: the mode after MAX_MODE is not wrapped.
ModeSwitchNoWrap(s, in) ==
  IF s.pressed
  THEN Note([s EXCEPT !.mode = IF in.esc > 0 THEN PROGRAM_MODE ELSE s.mode + 1,
                      !.diff = 0], "modePress")
  ELSE s

\* A rising edge of PROG_PIN changes the mode; the encoder position at the
\* edge becomes the old position.  prog starts FALSE, so the first iteration
\* after power-up sees an edge unless the switch is held down.
ModeSwitch(s, in) ==
  IF s.pressed
  THEN Note([s EXCEPT !.mode = IF in.esc > 0 THEN PROGRAM_MODE
                               ELSE IF s.mode + 1 > MAX_MODE THEN FirstMode
                               ELSE s.mode + 1,
                      !.diff = 0], "modePress")
  ELSE s

\* The channel each function input rotates: F1 -> D, F2 -> C, F3 -> B, F4 -> A.
FunctionChannel(i) == i - 1

\* Mutant of FunctionInputs: the level of an input, not its edge, rotates.
FunctionInputsLevel(s, in) ==
  LET high(i) == in.f[i] > HALF_DAC_RANGE
      live == Live(s)
      rotated ==
        [live EXCEPT !.channelPattern =
           [ch \in Channels |->
              IF high(ch + 1)
              THEN rotateLeft(live.channelPattern[ch],
                              live.patternLength[ch], in.ub)
              ELSE live.channelPattern[ch]]]
      s1 == [SetLive(s, rotated) EXCEPT !.statics.prevF = in.f]
  IN  IF \E i \in 1..4 : high(i) THEN Note(s1, "frotate") ELSE s1

\* Rising edges on F1..F4 rotate one channel of the live patch to the left.
FunctionInputs(s, in) ==
  LET rising(i) == in.f[i] > HALF_DAC_RANGE
                     /\ s.statics.prevF[i] < HALF_DAC_RANGE
      live == Live(s)
      rotated ==
        [live EXCEPT !.channelPattern =
           [ch \in Channels |->
              IF rising(ch + 1)
              THEN rotateLeft(live.channelPattern[ch],
                              live.patternLength[ch], in.ub)
              ELSE live.channelPattern[ch]]]
      s1 == [SetLive(s, rotated) EXCEPT !.statics.prevF = in.f]
  IN  IF \E i \in 1..4 : rising(i) THEN Note(s1, "frotate") ELSE s1

\* Mutant of ResetInput: the level of the input, not its edge, resets.
ResetInputLevel(s, in) ==
  IF in.reset = 1
  THEN Note([s EXCEPT !.step = Tup4(0, 0, 0, 0),
                      !.statics.prevResetPinIn = 1], "reset")
  ELSE [s EXCEPT !.statics.prevResetPinIn = 0]

\* A rising edge of the reset input restarts all four step counters.
ResetInput(s, in) ==
  LET delta == in.reset - s.statics.prevResetPinIn
  IN  CASE delta = 1 ->
             Note([s EXCEPT !.step = Tup4(0, 0, 0, 0),
                            !.statics.prevResetPinIn = 1], "reset")
        [] delta = -1 -> [s EXCEPT !.statics.prevResetPinIn = 0]
        [] OTHER -> s

\* Mutant of resetSteps: no version restarts the patterns after an edit.
resetStepsNever(s) == s

\* v1.0 restarts all patterns after a pulse or length edit; v1.1 does not.
resetSteps(s) ==
  IF build = "v10" THEN [s EXCEPT !.step = Tup4(0, 0, 0, 0)] ELSE s

\* Mutant of EditTempo: the limits are not applied.
EditTempoNoClamp(s) ==
  IF s.diff < -3
  THEN Note([s EXCEPT !.delayTime = (@ + WORD - 1) % WORD, !.diff = 0],
            "tempoEdit")
  ELSE IF s.diff > 3
  THEN Note([s EXCEPT !.delayTime = (@ + 1) % WORD, !.diff = 0], "tempoEdit")
  ELSE s

\* Tempo edit: one detent changes delayTime (unsigned, 16 bit) by 1,
\* limited to MIN_DELAY_TIME..MAX_DELAY_TIME.
EditTempo(s) ==
  IF s.diff < -3
  THEN LET d == (s.delayTime + WORD - 1) % WORD
       IN  Note([s EXCEPT !.delayTime = IF d < MIN_DELAY_TIME
                                        THEN MIN_DELAY_TIME ELSE d,
                          !.diff = 0], "tempoEdit")
  ELSE IF s.diff > 3
  THEN LET d == (s.delayTime + 1) % WORD
       IN  Note([s EXCEPT !.delayTime = IF d > MAX_DELAY_TIME
                                        THEN MAX_DELAY_TIME ELSE d,
                          !.diff = 0], "tempoEdit")
  ELSE s

\* The live patch with channel ch regenerated by euclid.
Regenerate(p, ch) == [p EXCEPT !.channelPattern[ch] = euclid(p, ch)]

\* Mutant of EditLength: the pattern is not regenerated after the edit.
EditLengthKeepPattern(s) ==
  LET ch == s.selectedTriggerChannel
      live == Live(s)
  IN  IF s.diff < -3
      THEN LET n == live.patternLength[ch] + 1
           IN  Note(resetSteps([SetLive(s, [live EXCEPT !.patternLength[ch] =
                       IF n > NUM_NEOP_LEDS THEN NUM_NEOP_LEDS ELSE n])
                     EXCEPT !.diff = 0]), "lengthEdit")
      ELSE IF s.diff > 3
      THEN LET n == live.patternLength[ch] - 1
           IN  Note(resetSteps([SetLive(s, [live EXCEPT !.patternLength[ch] =
                       IF n < 0 THEN 0 ELSE n])
                     EXCEPT !.diff = 0]), "lengthEdit")
      ELSE s

\* PATTERN_LENGTH_MODE, escape released: one detent changes the length of the
\* selected channel by 1, limited to 0..NUM_NEOP_LEDS, and regenerates its
\* pattern.
EditLength(s) ==
  LET ch == s.selectedTriggerChannel
      live == Live(s)
  IN  IF s.diff < -3
      THEN LET n == live.patternLength[ch] + 1
               p == [live EXCEPT !.patternLength[ch] =
                       IF n > NUM_NEOP_LEDS THEN NUM_NEOP_LEDS ELSE n]
           IN  Note(resetSteps([SetLive(s, Regenerate(p, ch))
                                  EXCEPT !.diff = 0]), "lengthEdit")
      ELSE IF s.diff > 3
      THEN LET n == live.patternLength[ch] - 1
               p == [live EXCEPT !.patternLength[ch] = IF n < 0 THEN 0 ELSE n]
           IN  Note(resetSteps([SetLive(s, Regenerate(p, ch))
                                  EXCEPT !.diff = 0]), "lengthEdit")
      ELSE s

\* Mutant of EditPulses: the pattern is not regenerated after the edit.
EditPulsesKeepPattern(s) ==
  LET ch == s.selectedTriggerChannel
      live == Live(s)
  IN  IF s.diff < -3
      THEN LET n == live.pulses[ch] + 1
           IN  Note(resetSteps([SetLive(s, [live EXCEPT !.pulses[ch] =
                       IF n > live.patternLength[ch]
                       THEN live.patternLength[ch] ELSE n])
                     EXCEPT !.diff = 0]), "pulseEdit")
      ELSE IF s.diff > 3
      THEN LET n == live.pulses[ch] - 1
           IN  Note(resetSteps([SetLive(s, [live EXCEPT !.pulses[ch] =
                       IF n < 0 THEN 0 ELSE n])
                     EXCEPT !.diff = 0]), "pulseEdit")
      ELSE s

\* NUM_PULSE_MODE, escape released: one detent changes the pulse count of the
\* selected channel by 1, limited to 0..patternLength, and regenerates its
\* pattern.
EditPulses(s) ==
  LET ch == s.selectedTriggerChannel
      live == Live(s)
  IN  IF s.diff < -3
      THEN LET n == live.pulses[ch] + 1
               p == [live EXCEPT !.pulses[ch] =
                       IF n > live.patternLength[ch]
                       THEN live.patternLength[ch] ELSE n]
           IN  Note(resetSteps([SetLive(s, Regenerate(p, ch))
                                  EXCEPT !.diff = 0]), "pulseEdit")
      ELSE IF s.diff > 3
      THEN LET n == live.pulses[ch] - 1
               p == [live EXCEPT !.pulses[ch] = IF n < 0 THEN 0 ELSE n]
           IN  Note(resetSteps([SetLive(s, Regenerate(p, ch))
                                  EXCEPT !.diff = 0]), "pulseEdit")
      ELSE s

\* ROTATE_MODE, escape released: one detent rotates the pattern of the
\* selected channel by one step.
EditRotation(s, in) ==
  LET ch == s.selectedTriggerChannel
      live == Live(s)
  IN  IF s.diff > 3
      THEN Note([SetLive(s, [live EXCEPT !.channelPattern[ch] =
                    rotateRight(@, live.patternLength[ch], in.ub)])
                  EXCEPT !.diff = 0], "rotate")
      ELSE IF s.diff < -3
      THEN Note([SetLive(s, [live EXCEPT !.channelPattern[ch] =
                    rotateLeft(@, live.patternLength[ch], in.ub)])
                  EXCEPT !.diff = 0], "rotate")
      ELSE s

\* Mutant of Recall: the step counters are left as they are.
RecallKeepSteps(s) ==
  LET k == s.candidatePatchNumber
      s1 == [s EXCEPT !.statics.prevProgramButtonValue = 1,
                      !.chosenPatchNumber = k]
      s2 == IF build = "v10"
            THEN [s1 EXCEPT !.currentPatch = copyPatch(s1.patches[k])]
            ELSE IF k \notin s1.memoryCellsInUse
            THEN [s1 EXCEPT !.patches[k] = createEmptyPatch]
            ELSE s1
  IN  Note([s2 EXCEPT !.eeprom = writePatchNumberToMemory(@, k)], "recall")

\* PROGRAM_MODE button A: recall the candidate cell.
Recall(s) ==
  LET k == s.candidatePatchNumber
      s1 == [s EXCEPT !.statics.prevProgramButtonValue = 1,
                      !.chosenPatchNumber = k]
      s2 == IF build = "v10"
            THEN [s1 EXCEPT !.currentPatch = copyPatch(s1.patches[k])]
            ELSE IF k \notin s1.memoryCellsInUse
            THEN [s1 EXCEPT !.patches[k] = createEmptyPatch]
            ELSE s1
  IN  Note([s2 EXCEPT !.step = Tup4(0, 0, 0, 0),
                      !.eeprom = writePatchNumberToMemory(@, k)], "recall")

\* PROGRAM_MODE button B: clear the candidate cell.  v1.0 also empties the
\* cell in RAM; v1.1 only clears its bit and its EEPROM record.
Clear(s) ==
  LET k == s.candidatePatchNumber
      inUse == s.memoryCellsInUse \ {k}
      s1 == [s EXCEPT !.statics.prevProgramButtonValue = 1,
                      !.memoryCellsInUse = inUse]
      s2 == IF build = "v10"
            THEN [s1 EXCEPT !.patches[k] = copyPatch(createEmptyPatch)]
            ELSE s1
  IN  Note([s2 EXCEPT !.eeprom = writePatchToMemory(@, createEmptyPatch, inUse,
                                   k, s.delayTime, s.selectedTriggerChannel)],
           "clear")

\* PROGRAM_MODE button D: store the live patch in the candidate cell.
Store(s) ==
  LET k == s.candidatePatchNumber
      inUse == s.memoryCellsInUse \cup {k}
      live == Live(s)
  IN  Note([s EXCEPT !.statics.prevProgramButtonValue = 1,
                     !.patches[k] = copyPatch(live),
                     !.memoryCellsInUse = inUse,
                     !.eeprom = writePatchToMemory(@, live, inUse, k,
                                   s.delayTime, s.selectedTriggerChannel)],
           "store")

\* Mutant of ProgramMode: the candidate cell stops at both ends.
ProgramModeNoWrap(s) ==
  LET s1 == IF s.diff > 3
            THEN Note([s EXCEPT !.diff = 0,
                         !.candidatePatchNumber = IF @ - 1 < 0 THEN 0 ELSE @ - 1],
                      "candidate")
            ELSE IF s.diff < -3
            THEN Note([s EXCEPT !.diff = 0,
                         !.candidatePatchNumber =
                            IF @ + 1 > NR_OF_MEMORY_CELLS - 1
                            THEN NR_OF_MEMORY_CELLS - 1 ELSE @ + 1],
                      "candidate")
            ELSE s
  IN  IF s1.statics.prevProgramButtonValue # 0 THEN s1
      ELSE CASE s1.programButtonName = TRIG_A -> Recall(s1)
             [] s1.programButtonName = TRIG_B -> Clear(s1)
             [] s1.programButtonName = TRIG_D -> Store(s1)
             [] OTHER -> s1

\* PROGRAM_MODE: a detent moves the candidate cell with wraparound, then a
\* newly pressed program button acts on it.
ProgramMode(s) ==
  LET s1 == IF s.diff > 3
            THEN Note([s EXCEPT !.diff = 0,
                         !.candidatePatchNumber =
                            IF @ - 1 < 0 THEN NR_OF_MEMORY_CELLS - 1 ELSE @ - 1],
                      "candidate")
            ELSE IF s.diff < -3
            THEN Note([s EXCEPT !.diff = 0,
                         !.candidatePatchNumber =
                            IF @ + 1 > NR_OF_MEMORY_CELLS - 1 THEN 0 ELSE @ + 1],
                      "candidate")
            ELSE s
  IN  IF s1.statics.prevProgramButtonValue # 0 THEN s1
      ELSE CASE s1.programButtonName = TRIG_A -> Recall(s1)
             [] s1.programButtonName = TRIG_B -> Clear(s1)
             [] s1.programButtonName = TRIG_D -> Store(s1)
             [] OTHER -> s1

\* switch (mode)
ModeAction(s, in) ==
  CASE s.mode = PATTERN_LENGTH_MODE /\ build # "v11" ->
         IF in.esc > 0 THEN EditTempo(s) ELSE EditLength(s)
    [] s.mode = NUM_PULSE_MODE ->
         IF in.esc > 0 /\ build # "v10" THEN EditTempo(s) ELSE EditPulses(s)
    [] s.mode = ROTATE_MODE ->
         IF in.esc > 0 /\ build # "v10" THEN EditTempo(s)
         ELSE EditRotation(s, in)
    [] s.mode = PROGRAM_MODE -> ProgramMode(s)
    [] OTHER -> s

\* C integer division truncates toward zero.
TruncDiv(a, b) == IF a >= 0 THEN a \div b ELSE -((-a) \div b)

\* Arduino map(): linear rescaling in long arithmetic.
map(x, in_min, in_max, out_min, out_max) ==
  TruncDiv((x - in_min) * (out_max - out_min), in_max - in_min) + out_min

\* The thresholds of the external clock edge detector.
ExtClkLow == IF build = "v10" THEN 128 ELSE 300

ExtClkHigh == 512

\* Mutant of InternalDue: the comparison admits equality.
InternalDueAtEquality(s) == s.elapsed >= s.delayTime

\* Internal clock: the wait for the next step is over.
InternalDue(s) == s.elapsed > s.delayTime

\* External clock: the pulse just went high.
ExternalEdge(s, in) ==
  in.extClk > ExtClkHigh /\ s.statics.prevExtClk < ExtClkLow

\* Mutant of TurnsOn: the mute flag is not consulted.
TurnsOnMuted(thisPatch, ch, st) == BitAt(thisPatch.channelPattern[ch], st) = 1

\* The trigger output of channel ch is turned on at step st.
TurnsOn(thisPatch, ch, st) ==
  ~thisPatch.mute[ch] /\ BitAt(thisPatch.channelPattern[ch], st) = 1

\* Mutant of trigWidth: the pot is ignored, the width is half the interval.
trigWidthHalf(pot, delay) == delay \div 2

\* The pulse width, an unsigned int, from the pot reading and the interval.
trigWidth(pot, delay) ==
  map(pot, 0, 1023, delay \div 2, delay \div 50) % WORD

\* Mutant of ClockAndOutputs: an iteration that triggers does not turn the
\* outputs off first.
ClockAndOutputsKeepOn(s, in) ==
  LET edge == ExternalEdge(s, in)
      triggered == IF clkPin THEN edge ELSE InternalDue(s)
      delay == IF clkPin /\ edge THEN s.elapsed % WORD ELSE s.delayTime
      off == ~triggered /\ s.elapsed > trigWidth(in.pot, delay)
      live == Live(s)
      next == [ch \in Channels |->
                 IF s.step[ch] + 1 > live.patternLength[ch] - 1 THEN 0
                 ELSE s.step[ch] + 1]
      s1 == [s EXCEPT !.delayTime = delay,
                      !.statics.prevExtClk = IF clkPin THEN in.extClk ELSE @,
                      !.trig = IF off THEN [ch \in Channels |-> FALSE] ELSE @,
                      !.clockOut = IF off THEN FALSE ELSE @,
                      !.triggered = triggered]
  IN  IF triggered
      THEN Note([s1 EXCEPT !.step = next,
                   !.trig = [ch \in Channels |->
                               IF TurnsOn(live, ch, next[ch])
                               THEN TRUE ELSE s1.trig[ch]],
                   !.clockOut = TRUE], "trigger")
      ELSE s1

\* Triggering, pulse width and the outputs.
ClockAndOutputs(s, in) ==
  LET edge == ExternalEdge(s, in)
      triggered == IF clkPin THEN edge ELSE InternalDue(s)
      delay == IF clkPin /\ edge THEN s.elapsed % WORD ELSE s.delayTime
      off == s.elapsed > trigWidth(in.pot, delay)
      live == Live(s)
      next == [ch \in Channels |->
                 IF s.step[ch] + 1 > live.patternLength[ch] - 1 THEN 0
                 ELSE s.step[ch] + 1]
      s1 == [s EXCEPT !.delayTime = delay,
                      !.statics.prevExtClk = IF clkPin THEN in.extClk ELSE @,
                      !.trig = IF off THEN [ch \in Channels |-> FALSE] ELSE @,
                      !.clockOut = IF off THEN FALSE ELSE @,
                      !.triggered = triggered]
  IN  IF triggered
      THEN Note([s1 EXCEPT !.step = next,
                   !.trig = [ch \in Channels |->
                               IF TurnsOn(live, ch, next[ch])
                               THEN TRUE ELSE s1.trig[ch]],
                   !.clockOut = TRUE], "trigger")
      ELSE s1

\* End of the iteration: what the statics carry into the next one.
Finish(s) ==
  [s EXCEPT !.pending = s.diff,
            !.sinceTrig = IF s.triggered THEN 0 ELSE s.elapsed]

\* The part of the iteration that precedes the clock: inputs, buttons, mode
\* switch, function inputs, reset input and the action of the mode.
BeforeClock(s, in) ==
  ModeAction(ResetInput(FunctionInputs(ModeSwitch(
    MuteButtons(ReadProgPin(ReadButtons(s, in), in), in), in), in), in), in)

loop(s, in) == Finish(ClockAndOutputs(BeforeClock(s, in), in))

----------------------------------------------------------------------------
\* The state machine

\* The program state as a record, with the locals of loop() as at its entry.
Cur ==
  [mode |-> mode, patches |-> patches, currentPatch |-> currentPatch,
   delayTime |-> delayTime, memoryCellsInUse |-> memoryCellsInUse,
   chosenPatchNumber |-> chosenPatchNumber,
   candidatePatchNumber |-> candidatePatchNumber,
   selectedTriggerChannel |-> selectedTriggerChannel, step |-> step,
   statics |-> statics, pending |-> pending, sinceTrig |-> sinceTrig,
   muteDelay |-> muteDelay, trig |-> trig, clockOut |-> clockOut,
   eeprom |-> eeprom, programButtonName |-> -1, pressed |-> FALSE,
   diff |-> 0, elapsed |-> 0, triggered |-> FALSE, events |-> {}]

Commit(s) ==
  /\ mode' = s.mode
  /\ patches' = s.patches
  /\ currentPatch' = s.currentPatch
  /\ delayTime' = s.delayTime
  /\ memoryCellsInUse' = s.memoryCellsInUse
  /\ chosenPatchNumber' = s.chosenPatchNumber
  /\ candidatePatchNumber' = s.candidatePatchNumber
  /\ selectedTriggerChannel' = s.selectedTriggerChannel
  /\ step' = s.step
  /\ statics' = s.statics
  /\ pending' = s.pending
  /\ sinceTrig' = s.sinceTrig
  /\ muteDelay' = s.muteDelay
  /\ trig' = s.trig
  /\ clockOut' = s.clockOut
  /\ eeprom' = s.eeprom

LivePatch == IF build = "v10" THEN currentPatch ELSE patches[chosenPatchNumber]

\* Events that leave a stored patch and its cell as the store left them.
QuietEvents == {"trigger"}

\* History of the last store: "stored" from the store until anything but a
\* quiet iteration happens, "recalled" in the state after a recall of the
\* stored cell that followed the store directly.  cleared holds the cells
\* cleared and not stored to since; rotated is set once the encoder has
\* rotated a pattern; armed tells that the external clock signal, when it was
\* last seen outside the band between the two thresholds, was below the low
\* one.
NextArmed(in) ==
  IF ~clkPin THEN hist.armed
  ELSE IF in.extClk > ExtClkHigh THEN FALSE
  ELSE IF in.extClk < ExtClkLow THEN TRUE
  ELSE hist.armed

\* Mute toggles counted over the button press in progress: a press is a run of
\* iterations reading the same button with escape held.  Counted up to 2.
NextToggles(s, in) ==
  LET name == DecodeProgramButton(in.button)
      held == in.esc > 0 /\ name # -1
      goesOn == /\ last.in.esc > 0
                /\ DecodeProgramButton(last.in.button) = name
      sofar == IF goesOn THEN hist.toggles ELSE 0
  IN  IF ~held THEN 0
      ELSE IF "mute" \in s.events /\ sofar < 2 THEN sofar + 1
      ELSE sofar

NextHist(s, in) ==
  LET k == s.candidatePatchNumber
      cleared == IF "clear" \in s.events THEN hist.cleared \cup {k}
                 ELSE IF "store" \in s.events THEN hist.cleared \ {k}
                 ELSE hist.cleared
      rotated == hist.rotated \/ "rotate" \in s.events
      toggles == NextToggles(s, in)
  IN  IF "store" \in s.events
      THEN [phase |-> "stored", storeSlot |-> k, storePatch |-> Live(s),
            cleared |-> cleared, rotated |-> rotated,
            armed |-> NextArmed(in), toggles |-> toggles]
      ELSE IF s.events \subseteq QuietEvents
      THEN [hist EXCEPT !.phase = IF @ = "stored" THEN "stored" ELSE "none",
                        !.armed = NextArmed(in), !.toggles = toggles]
      ELSE IF /\ hist.phase = "stored"
              /\ "recall" \in s.events
              /\ s.events \subseteq {"recall", "mute", "trigger"}
              /\ k = hist.storeSlot
      THEN [hist EXCEPT !.phase = "recalled", !.cleared = cleared,
                        !.rotated = rotated, !.armed = NextArmed(in),
                        !.toggles = toggles]
      ELSE [hist EXCEPT !.phase = "none", !.cleared = cleared,
                        !.rotated = rotated, !.armed = NextArmed(in),
                        !.toggles = toggles]

InitHist ==
  [phase |-> "none", storeSlot |-> 0, storePatch |-> createEmptyPatch,
   cleared |-> {}, rotated |-> FALSE, armed |-> TRUE, toggles |-> 0]

\* Outcomes of the shift by -1 that rotateLeft and rotateRight make on a
\* channel of length 0: undefined in C++, either bit may come out.
ShiftOutcomes ==
  IF \E ch \in Channels : LivePatch.patternLength[ch] = 0 THEN {0, 1} ELSE {0}

\* One iteration of loop() on inputs in.
Tick(in) ==
  /\ budget > 0
  /\ budget' = budget - 1
  /\ LET s == loop(Cur, in)
     IN  /\ Commit(s)
         /\ last' = [events |-> s.events, slot |-> s.candidatePatchNumber,
                     channel |-> s.selectedTriggerChannel, in |-> in]
         /\ hist' = NextHist(s, in)
  /\ UNCHANGED <<build, clkPin, fn>>

\* Nothing turned, no button pressed, the encoder switch up; escape held or
\* not.
IdleLoop == \E esc \in {0, 1} : Tick([NoInput EXCEPT !.esc = esc])

\* The encoder turned by one detent (4 counts), with or without escape held.
TurnEncoder ==
  \E enc \in {-4, 4}, esc \in {0, 1}, ub \in ShiftOutcomes :
    Tick([NoInput EXCEPT !.enc = enc, !.esc = esc, !.ub = ub])

\* The encoder switch held down; the iteration after it, whichever it is,
\* sees the rising edge.
HoldModeSelect == Tick([NoInput EXCEPT !.progPin = FALSE])

\* One of the four buttons pressed, with or without escape held.
PressButton ==
  \E button \in ButtonReadings, esc \in {0, 1} :
    Tick([NoInput EXCEPT !.button = button, !.esc = esc])

\* A pulse on one function input.
FunctionPulse ==
  \E i \in 1..4, ub \in ShiftOutcomes :
    Tick([NoInput EXCEPT !.f[i] = 1000, !.ub = ub])

\* A pulse on one function input while escape is held.
FunctionPulseHeld ==
  \E i \in 1..4, ub \in ShiftOutcomes :
    Tick([NoInput EXCEPT !.f[i] = 1000, !.esc = 1, !.ub = ub])

\* One of the four buttons held with escape, the iteration taking 100 ms.
HoldMuteButton ==
  \E button \in ButtonReadings :
    Tick([NoInput EXCEPT !.button = button, !.esc = 1, !.dt = 100])

\* The reset input high.
ResetHigh == Tick([NoInput EXCEPT !.reset = 1])

\* The external clock input high.
ExtClockHigh == Tick([NoInput EXCEPT !.extClk = 1000])

\* The external clock input between the two thresholds of some build.
ExtClockMid ==
  \E extClk \in {200, 400} : Tick([NoInput EXCEPT !.extClk = extClk])

\* Times between two iterations, in ms: the usual one, the factory tempo and
\* a little more than it.
LoopTimes == {LoopMs, 95, 100}

\* Readings of the pulse width pot: both ends of its range.
PotReadings == {0, 1023}

\* An idle iteration that comes dt ms after the previous one.
TimedLoop == \E dt \in LoopTimes : Tick([NoInput EXCEPT !.dt = dt])

\* An idle iteration with the pulse width pot at either end.
PotLoop == \E pot \in PotReadings : Tick([NoInput EXCEPT !.pot = pot])

\* The encoder turned by one detent with escape released.
EditDetent ==
  \E enc \in {-4, 4}, ub \in ShiftOutcomes :
    Tick([NoInput EXCEPT !.enc = enc, !.ub = ub])

\* Power cycle: setup() runs again on the EEPROM as it is.
Restart ==
  /\ budget > 0
  /\ budget' = budget - 1
  /\ Commit(setup(eeprom))
  /\ last' = [events |-> {"restart"}, slot |-> 0, channel |-> 0,
              in |-> NoInput]
  /\ hist' = [hist EXCEPT !.phase = "none", !.armed = TRUE, !.toggles = 0]
  /\ UNCHANGED <<build, clkPin, fn>>

\* Loop iterations explored per behaviour, by specification.
MaxLoops == 3
MaxEditLoops == 12
MaxBankLoops == 4
MaxTempoLoops == 5
MaxStepLoops == 8
MaxFuncLoops == 5

\* Iterations of loop() in the behaviours of SpecMute.
MaxMuteLoops == 6

\* The EEPROM image after the live patch thisPatch was stored in cell 0 of a
\* factory image, at tempo delay.
StoredImage(thisPatch, delay) ==
  writePatchToMemory(initializePatchInEeprom, thisPatch, {0}, 0, delay, TRIG_A)

\* A patch the length and pulse modes produce: short patterns where the
\* build can change the length, the preset where it cannot.
ShortPatch ==
  IF build = "v11" THEN initializePatchInEeprom.rec[0]
  ELSE LET p == [pulses |-> Tup4(3, 5, 2, 1),
                 patternLength |-> Tup4(8, 16, 4, 3),
                 channelPattern |-> Tup4(0, 0, 0, 0),
                 mute |-> [ch \in Channels |-> FALSE]]
       IN  [p EXCEPT !.channelPattern = [ch \in Channels |-> euclid(p, ch)]]

MachineInitFrom(image, loops, clocks) ==
  /\ build \in Builds
  /\ clkPin \in clocks
  /\ budget = loops
  /\ LET s == setup(image)
     IN  /\ mode = s.mode
         /\ patches = s.patches
         /\ currentPatch = s.currentPatch
         /\ delayTime = s.delayTime
         /\ memoryCellsInUse = s.memoryCellsInUse
         /\ chosenPatchNumber = s.chosenPatchNumber
         /\ candidatePatchNumber = s.candidatePatchNumber
         /\ selectedTriggerChannel = s.selectedTriggerChannel
         /\ step = s.step
         /\ statics = s.statics
         /\ pending = s.pending
         /\ sinceTrig = s.sinceTrig
         /\ muteDelay = s.muteDelay
         /\ trig = s.trig
         /\ clockOut = s.clockOut
         /\ eeprom = s.eeprom
  /\ last = [events |-> {}, slot |-> 0, channel |-> 0, in |-> NoInput]
  /\ hist = InitHist

MachineInit(loops, clocks) ==
  MachineInitFrom(initializePatchInEeprom, loops, clocks)

----------------------------------------------------------------------------
\* Function bench: euclid, rotateLeft and rotateRight applied to operands
\* drawn from bounded sets.  fn.ops records the rotations applied so far.

\* Patterns of every length up to MaxFreeLength are loaded bit for bit;
\* longer patterns are the ones euclid generates.
MaxFreeLength == 5

\* A Patch whose four channels all hold the given pulses / length / pattern.
UniformPatch(pulses, patternLength, pattern) ==
  [pulses |-> [c \in Channels |-> pulses],
   patternLength |-> [c \in Channels |-> patternLength],
   channelPattern |-> [c \in Channels |-> pattern],
   mute |-> [c \in Channels |-> FALSE]]

AllOps(op, n) == [i \in 1..n |-> op]

\* Rotation sequences the bench applies: up to length rotations one way,
\* or one rotation each way.
BenchOps(length) ==
  {AllOps("L", n) : n \in 0..length} \cup {AllOps("R", n) : n \in 0..length}
    \cup {<<"L", "R">>, <<"R", "L">>}

FnIdle ==
  [phase |-> "off", pulses |-> 0, patternLength |-> 1,
   orig |-> 0, pattern |-> 0, ops |-> <<>>]

\* The bench runs beside a machine that has just started and stays idle.
FnInit ==
  /\ MachineInit(0, {FALSE})
  /\ \E length \in 1..NUM_NEOP_LEDS : \E pulses \in 0..length :
       fn = [phase |-> "start", pulses |-> pulses, patternLength |-> length,
             orig |-> 0, pattern |-> 0, ops |-> <<>>]

Generate ==
  /\ fn.phase = "start"
  /\ LET number == euclid(UniformPatch(fn.pulses, fn.patternLength, 0), TRIG_D)
     IN  fn' = [fn EXCEPT !.phase = "generated", !.orig = number,
                          !.pattern = number]
  /\ UNCHANGED machineVars

LoadPattern ==
  /\ fn.phase = "start"
  /\ fn.pulses = 0
  /\ fn.patternLength <= MaxFreeLength
  /\ \E pattern \in 0..(2 ^ fn.patternLength - 1) :
       fn' = [fn EXCEPT !.phase = "loaded", !.orig = pattern,
                        !.pattern = pattern]
  /\ UNCHANGED machineVars

ApplyRotateLeft ==
  /\ fn.phase \in {"generated", "loaded"}
  /\ Append(fn.ops, "L") \in BenchOps(fn.patternLength)
  /\ fn' = [fn EXCEPT !.ops = Append(fn.ops, "L"),
                      !.pattern = rotateLeft(fn.pattern, fn.patternLength, 0)]
  /\ UNCHANGED machineVars

ApplyRotateRight ==
  /\ fn.phase \in {"generated", "loaded"}
  /\ Append(fn.ops, "R") \in BenchOps(fn.patternLength)
  /\ fn' = [fn EXCEPT !.ops = Append(fn.ops, "R"),
                      !.pattern = rotateRight(fn.pattern, fn.patternLength, 0)]
  /\ UNCHANGED machineVars

FnNext ==
  \/ Generate
  \/ LoadPattern
  \/ ApplyRotateLeft
  \/ ApplyRotateRight

SpecFn == FnInit /\ [][FnNext]_vars

----------------------------------------------------------------------------
\* Specifications of the machine

Init == MachineInit(MaxLoops, BOOLEAN) /\ fn = FnIdle

Next ==
  \/ IdleLoop
  \/ TurnEncoder
  \/ HoldModeSelect
  \/ PressButton
  \/ FunctionPulse
  \/ ResetHigh
  \/ ExtClockHigh
  \/ ExtClockMid
  \/ TimedLoop
  \/ PotLoop
  \/ Restart

Spec == Init /\ [][Next]_vars

\* Editing: the encoder and its switch, on the external clock.
EditInit == MachineInit(MaxEditLoops, {TRUE}) /\ fn = FnIdle

EditNext ==
  \/ TurnEncoder
  \/ HoldModeSelect

SpecEdit == EditInit /\ [][EditNext]_vars

\* The patch bank: program mode, buttons and power cycles.
BankInit == MachineInit(MaxBankLoops, {TRUE}) /\ fn = FnIdle

BankNext ==
  \/ IdleLoop
  \/ TurnEncoder
  \/ HoldModeSelect
  \/ PressButton
  \/ Restart

SpecBank == BankInit /\ [][BankNext]_vars

\* Tempo: the encoder with escape, from images stored at tempos at and near
\* both limits.
TempoValues == {MIN_DELAY_TIME, MIN_DELAY_TIME + 1, 95, MAX_DELAY_TIME - 1,
                MAX_DELAY_TIME}

TempoInit ==
  /\ fn = FnIdle
  /\ \E delay \in TempoValues :
       MachineInitFrom(StoredImage(initializePatchInEeprom.rec[0], delay),
                       MaxTempoLoops, BOOLEAN)

TempoNext ==
  \/ TurnEncoder
  \/ HoldModeSelect

SpecTempo == TempoInit /\ [][TempoNext]_vars

\* Stepping: clock triggers, resets and length edits on short patterns.
StepInit ==
  /\ fn = FnIdle
  /\ MachineInitFrom(StoredImage(ShortPatch, 95), MaxStepLoops, {FALSE})

StepNext ==
  \/ TimedLoop
  \/ EditDetent
  \/ HoldModeSelect
  \/ ResetHigh

SpecStep == StepInit /\ [][StepNext]_vars

\* The function inputs, in every mode, with escape held or not.
FuncInit ==
  /\ fn = FnIdle
  /\ MachineInitFrom(StoredImage(ShortPatch, 95), MaxFuncLoops, {TRUE})

FuncNext ==
  \/ FunctionPulse
  \/ FunctionPulseHeld
  \/ IdleLoop
  \/ HoldModeSelect

SpecFunc == FuncInit /\ [][FuncNext]_vars

\* The mute buttons: a button held with escape over iterations of 100 ms,
\* idle iterations and the encoder switch, from the factory image, on either
\* clock source.
MuteInit == MachineInit(MaxMuteLoops, BOOLEAN) /\ fn = FnIdle

MuteNext ==
  \/ HoldMuteButton
  \/ IdleLoop
  \/ HoldModeSelect

SpecMute == MuteInit /\ [][MuteNext]_vars

----------------------------------------------------------------------------
\* Claims about the pure functions (checked under SpecFn)

Generated == fn.phase = "generated" /\ fn.ops = <<>>

LowBits(pattern, length) == pattern % (2 ^ length)

\* C1: for 1 <= L <= 16 and 0 <= p <= L, euclid returns a pattern with
\* exactly p bits set, all of them at positions 0..L-1.
C1_PopCount ==
  Generated /\ fn.pulses <= fn.patternLength =>
    /\ Cardinality(BitsOf(fn.pattern)) = fn.pulses
    /\ BitsOf(fn.pattern) \subseteq 0..(fn.patternLength - 1)

C1_Witness ==
  Generated /\ fn.patternLength = 16 /\ fn.pulses = 7 /\ fn.pattern # 0

\* C6 as claimed: L rotations to the left, or L to the right, return the
\* original pattern value.
C6_Original ==
  /\ fn.ops = AllOps("L", fn.patternLength) => fn.pattern = fn.orig
  /\ fn.ops = AllOps("R", fn.patternLength) => fn.pattern = fn.orig

\* C6 as amended: L rotations to the left return the original in bits
\* 0..L-1 (rotateLeft leaves the dropped bits at positions >= L); L rotations
\* to the right return the original pattern value.
C6_RoundTrip ==
  /\ fn.ops = AllOps("L", fn.patternLength) =>
       LowBits(fn.pattern, fn.patternLength) = fn.orig
  /\ fn.ops = AllOps("R", fn.patternLength) => fn.pattern = fn.orig

C6_Witness ==
  /\ fn.ops = AllOps("L", fn.patternLength)
  /\ fn.patternLength = 12
  /\ fn.orig # 0
  /\ fn.pattern # fn.orig

C8_Original ==
  Generated /\ fn.pulses >= 1 => BitAt(fn.pattern, 0) = 1

\* C8 as amended: for 1 <= p <= L the last step, bit L-1, is set; bit 0 is
\* set exactly when p = L.
C8_LastStep ==
  Generated /\ fn.pulses >= 1 =>
    /\ BitAt(fn.pattern, fn.patternLength - 1) = 1
    /\ (BitAt(fn.pattern, 0) = 1 <=> fn.pulses = fn.patternLength)

C8_Witness ==
  Generated /\ fn.pulses = 3 /\ fn.patternLength = 8
    /\ BitAt(fn.pattern, 0) = 0

\* C9 as claimed: euclid(5, 16) sets exactly the bits {0,3,6,9,12,14}.
C9_Original ==
  Generated /\ fn.pulses = 5 /\ fn.patternLength = 16 =>
    BitsOf(fn.pattern) = {0, 3, 6, 9, 12, 14}

\* C9 as amended: euclid(5, 16) sets exactly the bits {3,6,9,12,15}.
C9_Scenario ==
  Generated /\ fn.pulses = 5 /\ fn.patternLength = 16 =>
    BitsOf(fn.pattern) = {3, 6, 9, 12, 15}

C9_Witness ==
  Generated /\ fn.pulses = 5 /\ fn.patternLength = 16 /\ fn.pattern = 37448

----------------------------------------------------------------------------
\* Claims about editing (checked under SpecEdit)

Edited == last.events \cap {"pulseEdit", "lengthEdit"} # {}

\* C2: after an encoder detent that edits the pulse count or the pattern
\* length of the selected channel, the live patch's pattern of that channel is
\* euclid of the post-edit values, whatever rotations came before.
C2_Regenerated ==
  Edited =>
    LivePatch.channelPattern[selectedTriggerChannel]
      = euclid(LivePatch, selectedTriggerChannel)

C2_Witness ==
  /\ "pulseEdit" \in last.events
  /\ hist.rotated
  /\ LivePatch.pulses[selectedTriggerChannel] = 5
  /\ LivePatch.channelPattern[selectedTriggerChannel] # 0

\* C10: in every reachable state every channel of the live patch has
\* 0 <= pulses <= patternLength.
C10_PulsesWithinLength ==
  \A c \in Channels :
    /\ 0 <= LivePatch.pulses[c]
    /\ LivePatch.pulses[c] <= LivePatch.patternLength[c]

----------------------------------------------------------------------------
\* Claims about the patch bank (checked under SpecBank)

\* C3: a store at cell k directly followed by a recall of cell k leaves the
\* live patch equal to the stored one, with cell k in use.
C3_StoreRecall ==
  hist.phase = "recalled" =>
    /\ LivePatch = hist.storePatch
    /\ hist.storeSlot \in memoryCellsInUse

\* C4: after a restart every cell in use holds the record last written for
\* it, whatever the occupancy of the cells below it.
C4_RestartLoads ==
  "restart" \in last.events =>
    \A k \in memoryCellsInUse : patches[k] = eeprom.rec[k]

\* C5: a clear of cell k takes k out of use, and a later recall of k yields
\* the empty patch: pulses 0, pattern 0 and length 16 on every channel.
C5_ClearRecall ==
  /\ "clear" \in last.events => last.slot \notin memoryCellsInUse
  /\ "recall" \in last.events /\ last.slot \in hist.cleared =>
       \A c \in Channels :
         /\ LivePatch.pulses[c] = 0
         /\ LivePatch.channelPattern[c] = 0
         /\ LivePatch.patternLength[c] = DEFAULT_PATTERN_LENGTH

----------------------------------------------------------------------------
\* Claims about ranges (checked under SpecBank and Spec)

\* C11: in every reachable state every channel of the live patch has
\* 1 <= patternLength <= 16, so no rotation meets a channel of length 0.
C11_LengthAtLeastOne ==
  \A c \in Channels :
    /\ 1 <= LivePatch.patternLength[c]
    /\ LivePatch.patternLength[c] <= NUM_NEOP_LEDS

\* C12: in every reachable state delayTime lies in 10..500, under both
\* clock sources.
C12_TempoInRange ==
  MIN_DELAY_TIME <= delayTime /\ delayTime <= MAX_DELAY_TIME

----------------------------------------------------------------------------
\* Claims about the tempo (checked under SpecTempo)

\* A step that is one iteration of loop().
TickStep == budget' = budget - 1 /\ "restart" \notin last'.events

Abs(x) == IF x < 0 THEN -x ELSE x

----------------------------------------------------------------------------
\* Claims about the step counters (checked under SpecStep)

\* C14: at the end of every iteration of loop() every channel has
\* 0 <= step <= patternLength - 1.
C14_StepInRange ==
  \A c \in Channels :
    0 <= step[c] /\ step[c] <= LivePatch.patternLength[c] - 1

\* The state in which the iteration now ending reached its clock section.
AtClock == BeforeClock(Cur, last'.in)

\* C15: on every trigger each channel of length >= 1 gets
\* step = (step + 1) mod patternLength, from the step and length the
\* trigger meets.
C15_StepAdvance ==
  [][TickStep /\ "trigger" \in last'.events
     => \A c \in Channels :
          Live(AtClock).patternLength[c] >= 1
          => step'[c] = (AtClock.step[c] + 1) % Live(AtClock).patternLength[c]]_vars

----------------------------------------------------------------------------
\* Claims about the clock

\* C16: with the internal clock an iteration triggers if and only if the
\* time since the previous trigger is greater than delayTime; an iteration
\* at which the two are equal does not trigger.
C16_InternalTrigger ==
  [][TickStep /\ ~clkPin
     => ("trigger" \in last'.events <=> sinceTrig + last'.in.dt > delayTime')]_vars

C16_Witness ==
  /\ ~clkPin
  /\ budget < MaxStepLoops
  /\ last.events = {}
  /\ sinceTrig = delayTime

\* C16 as stated: the iteration triggers if and only if the time since the
\* previous trigger is >= delayTime.
C16_Original ==
  [][TickStep /\ ~clkPin
     => ("trigger" \in last'.events <=> sinceTrig + last'.in.dt >= delayTime')]_vars

\* C17: with the external clock an iteration triggers if and only if it is
\* the first to see the signal above the high threshold after the signal was
\* last below the low threshold; that iteration sets delayTime to the time
\* since the previous trigger.
C17_ExternalTrigger ==
  [][TickStep /\ clkPin
     => /\ "trigger" \in last'.events
           <=> (hist.armed /\ last'.in.extClk > ExtClkHigh)
        /\ "trigger" \in last'.events
           => delayTime' = sinceTrig + last'.in.dt]_vars

----------------------------------------------------------------------------
\* Claims about the outputs

\* C18: in the builds with mute buttons, at the end of an iteration that
\* triggered an output is on only if its channel is not muted and the bit of
\* its pattern at the advanced step is set; an iteration that did not
\* trigger turns no output on.
C18_MutedSilent ==
  [][TickStep /\ build # "v10"
     => IF "trigger" \in last'.events
        THEN \A c \in Channels :
               trig'[c] => /\ ~LivePatch'.mute[c]
                           /\ BitAt(LivePatch'.channelPattern[c], step'[c]) = 1
        ELSE \A c \in Channels : trig'[c] => trig[c]]_vars

C18_Witness ==
  /\ build # "v10"
  /\ budget < MaxLoops
  /\ "trigger" \in last.events
  /\ \E c \in Channels :
       /\ LivePatch.mute[c]
       /\ BitAt(LivePatch.channelPattern[c], step[c]) = 1
       /\ ~trig[c]
  /\ \E c \in Channels : trig[c]

\* The pulse width as specified: the pot reading 0..1023 taken linearly from
\* half the interval down to a fiftieth of it.
PulseWidth(pot, interval) ==
  interval \div 2 - (pot * (interval \div 2 - interval \div 50)) \div 1023

Elapsed == sinceTrig + last'.in.dt

----------------------------------------------------------------------------
\* Claims about the reset input

\* C20: an iteration that reads the reset input 1 after the previous read 0
\* and does not trigger ends with all four steps 0; an iteration that reads
\* 1 after the previous also read 1 and does not trigger leaves the steps as
\* they were.
C20_ResetEdge ==
  [][TickStep /\ last'.in.reset = 1 /\ "trigger" \notin last'.events
     => IF last.in.reset = 0
        THEN step' = Tup4(0, 0, 0, 0)
        ELSE step' = step]_vars

C20_Witness ==
  /\ ~clkPin
  /\ budget = MaxLoops - 2
  /\ last.in.reset = 1
  /\ "reset" \in last.events
  /\ "trigger" \notin last.events
  /\ step = Tup4(0, 0, 0, 0)

----------------------------------------------------------------------------
\* Claims about the mode

\* The edge of a press of the encoder switch: PROG_PIN read low in the
\* previous iteration and high in the one now ending.  Before power-up the
\* switch is up.
PressEdge == ~last.in.progPin /\ last'.in.progPin

\* C21: the mode goes from a non-program mode to PROGRAM_MODE only in an
\* iteration with a press edge of the encoder switch while escape is held.
C21_ProgramEntry ==
  [][TickStep /\ mode # PROGRAM_MODE /\ mode' = PROGRAM_MODE
     => PressEdge /\ last'.in.esc > 0]_vars

\* The ring of the non-program modes the build has, in the order a plain
\* press visits them, starting at the initial mode.
ModeRing ==
  IF build = "v11" THEN <<NUM_PULSE_MODE, ROTATE_MODE>>
  ELSE <<PATTERN_LENGTH_MODE, NUM_PULSE_MODE, ROTATE_MODE>>

RingNext(m) ==
  IF m = PROGRAM_MODE THEN ModeRing[1]
  ELSE LET i == CHOOSE j \in 1..Len(ModeRing) : ModeRing[j] = m
       IN  ModeRing[(i % Len(ModeRing)) + 1]

C23_ModeAtStart ==
  /\ mode = ModeRing[1]
  /\ [][TickStep /\ ~PressEdge => mode' = mode]_vars

----------------------------------------------------------------------------
\* Claims about what an edit leaves alone

\* C24: an encoder detent with escape held, in an iteration that starts and
\* ends outside PROGRAM_MODE, leaves pulses, patternLength and channelPattern
\* of every channel of the live patch as they were.
C24_TempoOnly ==
  [][TickStep /\ last'.in.esc > 0 /\ last'.in.enc # 0
       /\ mode # PROGRAM_MODE /\ mode' # PROGRAM_MODE
     => /\ LivePatch'.pulses = LivePatch.pulses
        /\ LivePatch'.patternLength = LivePatch.patternLength
        /\ LivePatch'.channelPattern = LivePatch.channelPattern]_vars

----------------------------------------------------------------------------
\* Claims about the patch bank

\* What cell k of the bank holds: its patch when in use, else the empty one.
BankSlot(k) == IF k \in memoryCellsInUse THEN patches[k] ELSE createEmptyPatch

\* C25: a recall at candidate cell k ends with the live patch equal to cell
\* k of the bank (to the cell as it was before, when the iteration toggles no
\* mute flag), chosenPatchNumber = k and k as the patch number in EEPROM; the
\* four steps are 0 unless the same iteration triggers.
C25_Recall ==
  [][TickStep /\ "recall" \in last'.events
     => LET k == candidatePatchNumber'
        IN  /\ LivePatch' = patches'[k]
            /\ "mute" \notin last'.events => LivePatch' = BankSlot(k)
            /\ chosenPatchNumber' = k
            /\ eeprom'.patchNumber = k
            /\ "trigger" \notin last'.events => step' = Tup4(0, 0, 0, 0)]_vars

C25_Witness ==
  /\ ~clkPin
  /\ budget = MaxLoops - 3
  /\ "recall" \in last.events
  /\ "trigger" \notin last.events
  /\ candidatePatchNumber # 0
  /\ chosenPatchNumber = candidatePatchNumber
  /\ eeprom.patchNumber = candidatePatchNumber
  /\ LivePatch = createEmptyPatch
  /\ step = Tup4(0, 0, 0, 0)

\* C26: an iteration that neither stores nor clears leaves every cell of the
\* bank as it was, whatever it edits in the live patch.
C26_BankFrame ==
  [][TickStep /\ "store" \notin last'.events /\ "clear" \notin last'.events
     => \A k \in Slots : BankSlot(k)' = BankSlot(k)]_vars

C28_CandidateWraps ==
  /\ candidatePatchNumber \in 0..(NR_OF_MEMORY_CELLS - 1)
  /\ [][/\ candidatePatchNumber' \in 0..(NR_OF_MEMORY_CELLS - 1)
        /\ (TickStep /\ mode = PROGRAM_MODE /\ last'.in.enc # 0
               /\ "modePress" \notin last'.events)
           => candidatePatchNumber' =
                IF last'.in.enc > 0
                THEN (candidatePatchNumber + NR_OF_MEMORY_CELLS - 1)
                       % NR_OF_MEMORY_CELLS
                ELSE (candidatePatchNumber + 1) % NR_OF_MEMORY_CELLS]_vars

C28_Witness ==
  /\ budget = MaxBankLoops - 3
  /\ mode = PROGRAM_MODE
  /\ "candidate" \in last.events
  /\ last.in.enc < 0
  /\ candidatePatchNumber = 0

\* C29: in every state the trigger channel in the EEPROM header is the
\* selected trigger channel, so a restart comes up with the channel selected
\* last.
C29_ChannelPersisted ==
  eeprom.selectedTriggerChannel = selectedTriggerChannel

C29_Witness ==
  /\ "restart" \in last.events
  /\ selectedTriggerChannel # initializePatchInEeprom.selectedTriggerChannel
  /\ eeprom.selectedTriggerChannel = selectedTriggerChannel

----------------------------------------------------------------------------
\* Claims about the function inputs

\* The channel each function input acts on: F1 -> D, F2 -> C, F3 -> B, F4 -> A.
InputChannel == <<TRIG_D, TRIG_C, TRIG_B, TRIG_A>>

\* Function input i read below the midpoint in the previous iteration and
\* above it in the one now ending.
InputRises(i) ==
  last.in.f[i] < HALF_DAC_RANGE /\ last'.in.f[i] > HALF_DAC_RANGE

\* The low length bits of pattern rotated left by one position.
RotatedLeft(pattern, length) ==
  LET low == LowBits(pattern, length)
  IN  ((low * 2) % (2 ^ length)) + BitAt(low, length - 1)

----------------------------------------------------------------------------
\* Claims about the buttons

\* The action each program button stands for.
ButtonAction(name) ==
  CASE name = TRIG_A -> "recall"
    [] name = TRIG_B -> "clear"
    [] name = TRIG_D -> "store"
    [] OTHER -> "none"

ProgramActions == {"recall", "clear", "store"}

\* The iteration now ending and the one before it both ran in PROGRAM_MODE.
InProgramMode == mode = PROGRAM_MODE /\ "modePress" \notin last.events

\* C31: in PROGRAM_MODE (no mode press in this iteration) a program button
\* acts only in an iteration that follows one reading no action button, it
\* acts in the first iteration reading it after one that read no button, and
\* an iteration that reads the button of the previous iteration does nothing.
C31_OncePerRelease ==
  [][TickStep /\ InProgramMode /\ "modePress" \notin last'.events
     => LET now == DecodeProgramButton(last'.in.button)
            before == DecodeProgramButton(last.in.button)
            done == last'.events \cap ProgramActions
        IN  /\ done \subseteq {ButtonAction(now)}
            /\ now = before => done = {}
            /\ done # {} => ButtonAction(before) = "none"
            /\ (before = -1 /\ ButtonAction(now) # "none")
                 => done = {ButtonAction(now)}]_vars

\* A button read for the second iteration running in PROGRAM_MODE, its action
\* done in the first and not in the second.
C31_Witness ==
  /\ InProgramMode
  /\ hist.phase = "stored"
  /\ last.events = {}
  /\ DecodeProgramButton(last.in.button) = TRIG_D

\* C31 as first stated: the first iteration reading a program button performs
\* its action whatever the iteration before read.
C31_OncePerPress ==
  [][TickStep /\ InProgramMode /\ "modePress" \notin last'.events
     => LET now == DecodeProgramButton(last'.in.button)
            before == DecodeProgramButton(last.in.button)
            done == last'.events \cap ProgramActions
        IN  /\ done \subseteq {ButtonAction(now)}
            /\ now = before => done = {}
            /\ (now # before /\ ButtonAction(now) # "none")
                 => done = {ButtonAction(now)}]_vars

\* C32: in v1.1 one press of a button with escape held, however many
\* iterations it lasts, toggles the mute flag at most once.
C32_OneToggle == build # "v10" => hist.toggles <= 1

\* C33: an iteration changes the selected channel only if it starts outside
\* PROGRAM_MODE with escape released and reads a channel button; the channel
\* it selects is the one the button stands for.
C33_SelectFrame ==
  [][TickStep /\ selectedTriggerChannel' # selectedTriggerChannel
     => /\ mode # PROGRAM_MODE
        /\ last'.in.esc = 0
        /\ DecodeChannel(-1, last'.in.button) = selectedTriggerChannel']_vars

\* A channel other than the factory one selected by a button, and the same
\* button read with escape held or in PROGRAM_MODE without effect.
C33_Witness ==
  /\ "select" \in last.events
  /\ last.in.esc = 0
  /\ selectedTriggerChannel = TRIG_D
  /\ DecodeChannel(-1, last.in.button) = TRIG_D

----------------------------------------------------------------------------
\* Claims about the step counters and the outputs

EditEvents == {"pulseEdit", "lengthEdit"}

\* C34: in v1.0, the version that has resetSteps, an iteration with a pulse
\* or length detent restarts all four channels: it ends with every step
\* counter at 0, or one step on (1, or 0 on a channel of length 0 or 1) if the
\* clock triggers later in the same iteration.
C34_RestartAll ==
  [][TickStep /\ build = "v10" /\ last'.events \cap EditEvents # {}
     => \A c \in Channels :
          step'[c] = IF /\ "trigger" \in last'.events
                        /\ LivePatch'.patternLength[c] > 1
                     THEN 1 ELSE 0]_vars

\* v1.0: a detent in the iteration after a trigger, all counters back at 0.
C34_Witness ==
  /\ build = "v10"
  /\ last.events \cap EditEvents # {}
  /\ "trigger" \notin last.events
  /\ sinceTrig = LoopMs
  /\ \A c \in Channels : step[c] = 0

\* C34 as first stated: every iteration with a pulse or length detent, escape
\* released, ends with all four step counters at 0.
C34_AllZero ==
  [][TickStep /\ last'.in.esc = 0 /\ last'.events \cap EditEvents # {}
     => \A c \in Channels : step'[c] = 0]_vars

----------------------------------------------------------------------------
\* Claims about the modes and the store

\* C35: the build without ALLOW_PATTERN_LENGTH_CHANGE is never in
\* PATTERN_LENGTH_MODE: its mode is NUM_PULSE_MODE, ROTATE_MODE or
\* PROGRAM_MODE.
C35_NoLengthMode ==
  build = "v11" => mode \in {NUM_PULSE_MODE, ROTATE_MODE, PROGRAM_MODE}

\* The default build back in NUM_PULSE_MODE by a press of the encoder switch.
C35_Witness ==
  /\ build = "v11"
  /\ mode = NUM_PULSE_MODE
  /\ "modePress" \in last.events

\* C36: the chosen patch number in the header of the store is the chosen
\* patch number of the running program.
C36_ChosenPersisted == eeprom.patchNumber = chosenPatchNumber

C38_OutputsFollowPattern ==
  [][TickStep /\ ~clkPin /\ "trigger" \in last'.events
     => \A c \in Channels :
          trig'[c] <=> /\ ~LivePatch'.mute[c]
                       /\ BitAt(LivePatch'.channelPattern[c], step'[c]) = 1]_vars

\* After a trigger on the internal clock: an output off at a clear bit that
\* follows a set one, an output off on a muted channel whose bit is set, and
\* an output on.
C38_Witness ==
  /\ ~clkPin
  /\ "trigger" \in last.events
  /\ \E c \in Channels :
       /\ step[c] >= 2
       /\ ~LivePatch.mute[c]
       /\ BitAt(LivePatch.channelPattern[c], step[c] - 1) = 1
       /\ BitAt(LivePatch.channelPattern[c], step[c]) = 0
       /\ ~trig[c]
  /\ \E c \in Channels :
       /\ LivePatch.mute[c]
       /\ BitAt(LivePatch.channelPattern[c], step[c]) = 1
       /\ ~trig[c]
  /\ \E c \in Channels : trig[c]

\* C39: in v1.1 an iteration that starts in PROGRAM_MODE toggles no mute
\* flag, and unless it recalls, clears or stores it leaves the mute flags of
\* every patch of the bank, the live one included, as they were.
C39_NoMuteInProgramMode ==
  [][TickStep /\ build # "v10" /\ mode = PROGRAM_MODE
     => /\ "mute" \notin last'.events
        /\ last'.events \cap ProgramActions = {}
             => \A k \in Slots : patches'[k].mute = patches[k].mute]_vars

====
